---- MODULE Spec2Model ----
(***************************************************************************)
(* A model of the layout/assembly/merge kernel of PhantomEngaged_Lander.   *)
(*                                                                         *)
(*   Spec     the merge tool, src/insert_callouts.py: the module-level     *)
(*            configuration (ORIG_PDF / OUTPUT) and build().               *)
(*   GenSpec  the generators, src/generate_phantom_engaged.py,             *)
(*            src/generate_whitepaper_full.py and                          *)
(*            src/generate_whitepaper_proof.py: the flowable stream each   *)
(*            build() hands to the layout engine, the page templates and   *)
(*            their chrome routines, run by the document assembler.        *)
(*   TwiceSpec   a generator run twice with the same inputs.               *)
(*   CalloutSpec a callout box (CalloutBox / ModernCallout): __init__,     *)
(*            then draw().                                                 *)
(*   UrlSpec  the tracking URL and its two hyperlink placements.           *)
(*   DiagSpec the OverlapDiagram of each generator: __init__, then draw(). *)
(*   ConcSpec two builds run at the same time in processes of their own.   *)
(*   FrameSpec   a callout box in the content frame of its document.       *)
(***************************************************************************)
EXTENDS Integers, Sequences, FiniteSets, TLC

VARIABLES
    \* ---- merge tool (insert_callouts.py) ----
    fs,          \* the file system: path -> [exists, pages]
    fs0,         \* the file system as it was before the tool ran
    cwdIsLander, \* the working directory is <script dir>/mnt/PhantomEngaged_Lander
    ORIG_PDF,    \* module global, line 25 / 34
    OUTPUT,      \* module global, line 27 / 35
    mpc,         \* position of the merge tool
    reader,      \* reader.pages (line 203)
    a_reader,    \* a_reader.pages (line 217)
    c_reader,    \* c_reader.pages (line 221)
    writer,      \* writer's page sequence (line 204)
    i,           \* loop variable of line 224
    layout,      \* the pages doc.build laid each payload story out on
    \* ---- generators ----
    gen,         \* which generator runs
    heights,     \* flowable id -> its wrapped height
    stream,      \* the flowables not handled yet
    template,    \* the current page template
    nextTemplate,\* the template requested by NextPageTemplate, or "none"
    page,        \* doc.page, the engine's internal page counter
    remaining,   \* vertical space left in the current frame
    placed,      \* placed flowables: <<[id, page, y]>>
    chrome,      \* per physical page: [template, displayed]
    groups,      \* keep-together groups met: <<[ids, total, remaining, page]>>
    gpc,         \* position of the generator
    run,         \* how many times the generator has been started
    firstRun,    \* what the first run produced: [pages, placed, chrome]
    \* ---- a callout box (CalloutBox / ModernCallout) ----
    cls,             \* the class of the box
    text_paragraphs, \* the text blocks given to __init__
    avail_width,     \* the width given to __init__
    self,            \* the attributes __init__ sets
    wrapLog,         \* every call of the wrap primitive: <<[para, width, ph, by]>>
    painted,         \* the background rectangle draw() paints
    drawn,           \* the blocks draw() has drawn: <<[para, x, y, ph]>>
    y,               \* draw()'s local y
    di,              \* draw()'s position in self.paras
    cpc,             \* position of the box: new, constructed, drawing, drawn
    \* ---- the tracking URL of a build ----
    TOOL_URL,        \* module global, line 24: the characters of the URL
    tool_callout_texts, \* the markup of the Approach-A callout text
    links,           \* the hyperlink each placement embeds: [placed, href]
    upc,             \* position of the build: start, formatted, parsed, built
    \* ---- an OverlapDiagram ----
    dcls,            \* the generator whose OverlapDiagram this is
    dself,           \* the attributes __init__ sets: [width, height]
    shapes,          \* the shapes draw() added to the Drawing, in order
    earlier,         \* an earlier diagram of the same class: [width, shapes]
    dpc,             \* position of the diagram: new, constructed, drawn
    \* ---- builds run at the same time ----
    disk,            \* the file system the builds share: file -> content
    builds,          \* per build: [kind, url, cwd, arg, doc, pc]
    \* ---- a callout box in the content frame ----
    prog,            \* the program that builds the document
    frame,           \* the content frame of its page template
    origin           \* where the frame put the box: [x, avail]

mergeVars == <<fs, fs0, cwdIsLander, ORIG_PDF, OUTPUT, mpc, reader, a_reader,
               c_reader, writer, i, layout>>
genVars == <<gen, heights, stream, template, nextTemplate, page, remaining,
             placed, chrome, groups, gpc, run, firstRun>>
calloutVars == <<cls, text_paragraphs, avail_width, self, wrapLog, painted,
                 drawn, y, di, cpc>>
urlVars == <<TOOL_URL, tool_callout_texts, links, upc>>
diagVars == <<dcls, dself, shapes, earlier, dpc>>
concVars == <<disk, builds>>
frameVars == <<prog, frame, origin>>
vars == <<mergeVars, genVars, calloutVars, urlVars, diagVars, concVars,
          frameVars>>
notMergeVars == <<genVars, calloutVars, urlVars, diagVars, concVars, frameVars>>
notGenVars == <<mergeVars, calloutVars, urlVars, diagVars, concVars, frameVars>>
notCalloutVars == <<mergeVars, genVars, urlVars, diagVars, concVars, frameVars>>
notUrlVars == <<mergeVars, genVars, calloutVars, diagVars, concVars, frameVars>>
notDiagVars == <<mergeVars, genVars, calloutVars, urlVars, concVars, frameVars>>
notConcVars == <<mergeVars, genVars, calloutVars, urlVars, diagVars, frameVars>>
notFrameVars == <<mergeVars, genVars, calloutVars, urlVars, diagVars, concVars>>

(***************************************************************************)
(* Bounds of the model.                                                    *)
(***************************************************************************)
\* the largest page count of a source document
MaxPages == 10
\* the largest wrapped height of one flowable, in layout units of the model
MaxH == 2
\* the usable height of the content frame, in layout units of the model
FrameH == 3

\* the largest number of lines a text block of a callout page fills at the
\* width of the page's frame
MaxLines == 6
\* the largest number of characters of a tracking URL
MaxUrlLen == 3
\* the largest number of text blocks of a callout box
MaxBlocks == 2
\* the natural widths of a text block: TextStep, 2 TextStep, .. MaxTextSteps TextStep
MaxTextSteps == 3
TextStep == 100
\* the widths a callout box is built for: WidthStep, .. MaxWidthSteps WidthStep
MaxWidthSteps == 3
WidthStep == 80
\* the widths a diagram is built for: DiagStep, .. MaxDiagSteps DiagStep
MaxDiagSteps == 5
DiagStep == 100

(***************************************************************************)
(* The callout boxes: CalloutBox (generate_phantom_engaged.py and          *)
(* insert_callouts.py, the same class) and ModernCallout                   *)
(* (generate_whitepaper_full.py).  Lengths are in points.  A text block is *)
(* given by the natural width of its text; the wrap primitive breaks it    *)
(* into the lines the width allows and returns lines x leading.            *)
(***************************************************************************)
Classes == {"CalloutBox", "ModernCallout"}

Padding(c) == IF c = "CalloutBox" THEN 14 ELSE 18
BarW(c) == 4
\* the spacing added after each block while measuring and drawing
Gap(c) == IF c = "CalloutBox" THEN 4 ELSE 10
\* the leading of the callout styles (sCalloutItalic / sCalloutText)
Leading(c) == IF c = "CalloutBox" THEN 15 ELSE 16
\* the margin CalloutBox leaves under and over its background
YBase(c) == IF c = "CalloutBox" THEN 4 ELSE 0

Paragraph(tw, c) == [tw |-> tw, leading |-> Leading(c)]

\* Paragraph.wrap(width, _): the height of the block broken at width
NumLines(tw, w) == (tw + w - 1) \div w
wrap(para, w) == para.leading * NumLines(para.tw, w)

\* InnerWidth without the border bar
InnerWidth_NoBar(c, aw) == aw - Padding(c) * 2

\* __init__: inner_w
InnerWidth(c, aw) == aw - BarW(c) - Padding(c) * 2

\* total_h without the spacing after each block
RECURSIVE total_h_NoGap(_, _, _)
total_h_NoGap(c, paras, w) ==
    IF paras = <<>> THEN 0
    ELSE wrap(Head(paras), w) + total_h_NoGap(c, Tail(paras), w)

\* __init__: the loop that wraps every block and accumulates total_h
RECURSIVE total_h(_, _, _)
total_h(c, paras, w) ==
    IF paras = <<>> THEN 0
    ELSE wrap(Head(paras), w) + Gap(c) + total_h(c, Tail(paras), w)

\* the attributes __init__ leaves on the box.  ModernCallout has no box_h,
\* bar_w or avail_width attribute: its background is painted self.height
\* high, its bar 4 wide, over self.width
CalloutBox_init(texts, aw) ==
    LET c == "CalloutBox"
        paras == [j \in DOMAIN texts |-> Paragraph(texts[j], c)]
        iw == InnerWidth(c, aw)
        bh == total_h(c, paras, iw) + Padding(c) * 2 - 4
    IN  [padding |-> Padding(c), bar_w |-> BarW(c), avail_width |-> aw,
         paras |-> paras, inner_w |-> iw, box_h |-> bh, width |-> aw,
         height |-> bh + 8]

ModernCallout_init(texts, aw) ==
    LET c == "ModernCallout"
        paras == [j \in DOMAIN texts |-> Paragraph(texts[j], c)]
        iw == InnerWidth(c, aw)
        h == total_h(c, paras, iw) - 10 + Padding(c) * 2
    IN  [padding |-> Padding(c), bar_w |-> BarW(c), avail_width |-> aw,
         paras |-> paras, inner_w |-> iw, box_h |-> h, width |-> aw,
         height |-> h]

(***************************************************************************)
(* insert_callouts.py                                                      *)
(***************************************************************************)
PrimaryOrig == "<dir>/mnt/PhantomEngaged_Lander/Phantom_Engaged_v4.pdf"
PrimaryOut == "<dir>/mnt/PhantomEngaged_Lander/Phantom_Engaged_v5.pdf"
CwdOrig == "Phantom_Engaged_v4.pdf"
CwdOut == "Phantom_Engaged_v5.pdf"
NoPath == "<unset>"

Files == {PrimaryOrig, PrimaryOut, CwdOrig, CwdOut}

\* the file a path names: a relative path is taken from the working directory
Resolve(path) ==
    IF cwdIsLander /\ path = CwdOrig THEN PrimaryOrig
    ELSE IF cwdIsLander /\ path = CwdOut THEN PrimaryOut
    ELSE path

OrigPage(n) == [kind |-> "orig", name |-> "orig", num |-> n]
StalePage == [kind |-> "stale", name |-> "stale", num |-> 0]
CalloutPage(nm, page_num) == [kind |-> "callout", name |-> nm, num |-> page_num]

Absent == [exists |-> FALSE, pages |-> <<>>]
Document(ps) == [exists |-> TRUE, pages |-> ps]
\* a source document of n pages: page indices 0 .. n-1
SourceDoc(n) == Document([k \in 1..n |-> OrigPage(k - 1)])

\* the anchors of the two insertions and the page numbers given to them
AnchorA == 3
AnchorC == 7
\* PageNumA with the 1-based position of the inserted page in the output
PageNumA_OutputPosition == AnchorA + 2
PageNumA == 3
PageNumC == 8

NoLayout == [A |-> <<>>, C |-> <<>>]

MergeInit ==
    /\ cwdIsLander \in BOOLEAN
    /\ \E po \in {Absent} \cup {SourceDoc(n) : n \in 0..MaxPages},
          co \in {Absent} \cup {SourceDoc(n) : n \in {0, MaxPages - 1}},
          pv \in {Absent, Document(<<StalePage>>)},
          cv \in {Absent, Document(<<StalePage>>)} :
          /\ cwdIsLander => (co = Absent /\ cv = Absent)
          /\ fs = (PrimaryOrig :> po) @@ (PrimaryOut :> pv)
                  @@ (CwdOrig :> co) @@ (CwdOut :> cv)
    /\ fs0 = fs
    /\ ORIG_PDF = NoPath
    /\ OUTPUT = NoPath
    /\ mpc = "config"
    /\ reader = <<>>
    /\ a_reader = <<>>
    /\ c_reader = <<>>
    /\ writer = <<>>
    /\ i = 0
    /\ layout = NoLayout

MergeIdle ==
    /\ cwdIsLander = FALSE
    /\ fs = [f \in Files |-> Absent]
    /\ fs0 = fs
    /\ ORIG_PDF = NoPath
    /\ OUTPUT = NoPath
    /\ mpc = "idle"
    /\ reader = <<>>
    /\ a_reader = <<>>
    /\ c_reader = <<>>
    /\ writer = <<>>
    /\ i = 0
    /\ layout = NoLayout

\* ConfigPaths with the fallback's output named like its source
ConfigPaths_SameName ==
    IF fs[PrimaryOrig].exists
    THEN <<PrimaryOrig, PrimaryOut>>
    ELSE <<CwdOrig, CwdOrig>>

\* lines 25-35: the primary paths, or the working-directory fallback
ConfigPaths ==
    IF fs[PrimaryOrig].exists
    THEN <<PrimaryOrig, PrimaryOut>>
    ELSE <<CwdOrig, CwdOut>>

Configure ==
    /\ mpc = "config"
    /\ ORIG_PDF' = ConfigPaths[1]
    /\ OUTPUT' = ConfigPaths[2]
    /\ mpc' = "start"
    /\ UNCHANGED <<fs, fs0, cwdIsLander, reader, a_reader, c_reader, writer, i,
                   layout>>
    /\ UNCHANGED notMergeVars

\* OpenReaderEffect taking an absent source for an empty document
OpenReaderEffect_EmptyOnMissing ==
    /\ reader' = fs[Resolve(ORIG_PDF)].pages
    /\ mpc' = "render"
    /\ fs' = fs

\* line 203-204: PdfReader(ORIG_PDF) raises when the file is absent
OpenReaderEffect ==
    IF fs[Resolve(ORIG_PDF)].exists
    THEN /\ reader' = fs[Resolve(ORIG_PDF)].pages
         /\ mpc' = "render"
         /\ fs' = fs
    ELSE /\ reader' = reader
         /\ mpc' = "failed"
         /\ fs' = fs

OpenReader ==
    /\ mpc = "start"
    /\ OpenReaderEffect
    /\ writer' = <<>>
    /\ UNCHANGED <<fs0, cwdIsLander, ORIG_PDF, OUTPUT, a_reader, c_reader, i,
                   layout>>
    /\ UNCHANGED notMergeVars

\* ---- the payload stories and their sub-documents ----
\* build(), line 205: avail_w = W - inch * 1.7 (489.6), in whole points
AvailW == 489
\* letter: H
PageHeightPts == 792
\* OnePage: the frame is H - inch * 1.6 high (inch * 1.6 = 115.2), in whole
\* points
FrameInset == 116
\* the padding a frame keeps on each of its sides
FramePad == 6

\* CalloutFrameH with half the page height taken for the page height
CalloutFrameH_HalfPage == PageHeightPts \div 2 - FrameInset - 2 * FramePad

\* OnePage: the usable height and width of the frame 'main'
CalloutFrameH == PageHeightPts - FrameInset - 2 * FramePad
CalloutFrameW == AvailW - 2 * FramePad

Flowable(id, h) == [id |-> id, h |-> h]
\* a Paragraph placed in the frame: its wrapped height and the space after it
FramedParagraph(id, tw, leading, spaceAfter) ==
    Flowable(id, wrap([tw |-> tw, leading |-> leading], CalloutFrameW) + spaceAfter)

\* create_approach_a, for a callout text of natural width ta
create_approach_a(avail_w, ta) ==
    <<Flowable("a_spacer", 20),
      Flowable("a_callout", CalloutBox_init(<<ta>>, avail_w).height)>>

\* create_approach_c, for a heading and two paragraphs of natural widths tc
create_approach_c(avail_w, tc) ==
    <<Flowable("c_spacer1", 12), Flowable("c_rule", 4),
      Flowable("c_spacer2", 16), FramedParagraph("c_heading", tc[1], 18, 6),
      Flowable("c_spacer3", 10), FramedParagraph("c_body1", tc[2], 15, 8),
      Flowable("c_spacer4", 4), FramedParagraph("c_body2", tc[3], 15, 8)>>

\* the natural widths of a payload's text block: one line, or MaxLines lines
PayloadTexts == {AvailW * n : n \in {1, MaxLines}}

\* doc.build: the flowables stacked in the frame, a new page begun when one
\* does not fit; a flowable taller than the frame fails the build
NoPage == [items |-> <<>>, used |-> 0]
TooLarge(st, fh) == \E j \in DOMAIN st : st[j].h > fh
RECURSIVE LayOut(_, _, _)
LayOut(st, cur, fh) ==
    IF st = <<>> THEN <<cur>>
    ELSE IF cur.used + Head(st).h <= fh
         THEN LayOut(Tail(st),
                     [items |-> Append(cur.items, Head(st).id),
                      used |-> cur.used + Head(st).h], fh)
         ELSE <<cur>> \o LayOut(st, NoPage, fh)

\* draw_footer printing the sub-document's own page counter
draw_footer_DocPage(doc_page, page_num) == doc_page

\* draw_footer(canvas, doc, page_num): the number printed after "Page"
draw_footer(doc_page, page_num) == page_num

\* make_callout_page: the pages of the sub-document read back from the
\* buffer, each with the footer the template's onPage drew on it
make_callout_page(nm, story_items, page_num) ==
    [k \in DOMAIN LayOut(story_items, NoPage, CalloutFrameH) |->
        CalloutPage(nm, draw_footer(k, page_num))]

\* lines 204-221: the two payload stories, their sub-documents and the
\* pages read back from them.  The wrap primitive decides how many lines
\* each text block fills.
RenderCallouts ==
    /\ mpc = "render"
    /\ \E ta \in PayloadTexts, tc \in [1..3 -> PayloadTexts] :
          LET a_story == create_approach_a(AvailW, ta)
              c_story == create_approach_c(AvailW, tc)
          IN  IF TooLarge(a_story, CalloutFrameH)
                 \/ TooLarge(c_story, CalloutFrameH)
              THEN /\ mpc' = "failed"
                   /\ UNCHANGED <<a_reader, c_reader, layout>>
              ELSE /\ a_reader' = make_callout_page("A", a_story, PageNumA)
                   /\ c_reader' = make_callout_page("C", c_story, PageNumC)
                   /\ layout' = [A |-> LayOut(a_story, NoPage, CalloutFrameH),
                                 C |-> LayOut(c_story, NoPage, CalloutFrameH)]
                   /\ mpc' = "assemble"
    /\ i' = 0
    /\ UNCHANGED <<fs, fs0, cwdIsLander, ORIG_PDF, OUTPUT, reader, writer>>
    /\ UNCHANGED notMergeVars

\* InsertedAfter with the anchors read as positions in the growing output
InsertedAfter_OutputIndex(k, w) ==
    (IF Len(w) - 1 = AnchorA THEN <<a_reader[1]>> ELSE <<>>)
    \o (IF Len(w) - 1 = AnchorC THEN <<c_reader[1]>> ELSE <<>>)

\* lines 227-233: the pages added after original page k, w being the writer's
\* pages once original page k has been added
InsertedAfter(k, w) ==
    (IF k = AnchorA THEN <<a_reader[1]>> ELSE <<>>)
    \o (IF k = AnchorC THEN <<c_reader[1]>> ELSE <<>>)

\* LoopBody with a callout page put in the place of its anchor page
LoopBody_Replace(k, w) ==
    IF InsertedAfter(k, w) = <<>>
    THEN Append(w, reader[k + 1])
    ELSE w \o InsertedAfter(k, w)

\* LoopBody reading the source at the index of the growing output
LoopBody_GrowingIndex(k, w) ==
    LET j == IF Len(w) + 1 <= Len(reader) THEN Len(w) + 1 ELSE Len(reader)
        w1 == Append(w, reader[j])
    IN  w1 \o InsertedAfter(k, w1)

\* lines 225-233: one iteration of the loop body
LoopBody(k, w) ==
    LET w1 == Append(w, reader[k + 1])
    IN  w1 \o InsertedAfter(k, w1)

\* lines 224-233
AssembleStep ==
    /\ mpc = "assemble"
    /\ i < Len(reader)
    /\ writer' = LoopBody(i, writer)
    /\ i' = i + 1
    /\ UNCHANGED <<fs, fs0, cwdIsLander, ORIG_PDF, OUTPUT, mpc, reader,
                   a_reader, c_reader, layout>>
    /\ UNCHANGED notMergeVars

\* OpenOutput with the file opened while the loop is still adding pages
OpenOutput_DuringLoop ==
    /\ mpc = "assemble"
    /\ fs' = [fs EXCEPT ![Resolve(OUTPUT)] = Document(<<>>)]
    /\ mpc' = "writing"
    /\ UNCHANGED <<fs0, cwdIsLander, ORIG_PDF, OUTPUT, reader, a_reader,
                   c_reader, writer, i, layout>>
    /\ UNCHANGED notMergeVars

\* line 235: open(OUTPUT, "wb") creates or truncates the output file
OpenOutput ==
    /\ mpc = "assemble"
    /\ i = Len(reader)
    /\ fs' = [fs EXCEPT ![Resolve(OUTPUT)] = Document(<<>>)]
    /\ mpc' = "writing"
    /\ UNCHANGED <<fs0, cwdIsLander, ORIG_PDF, OUTPUT, reader, a_reader,
                   c_reader, writer, i, layout>>
    /\ UNCHANGED notMergeVars

\* line 236: writer.write(f)
WriteOutput ==
    /\ mpc = "writing"
    /\ fs' = [fs EXCEPT ![Resolve(OUTPUT)] = Document(writer)]
    /\ mpc' = "done"
    /\ UNCHANGED <<fs0, cwdIsLander, ORIG_PDF, OUTPUT, reader, a_reader,
                   c_reader, writer, i, layout>>
    /\ UNCHANGED notMergeVars

NoRun == [pages |-> 0, placed |-> <<>>, chrome |-> <<>>]

GenIdle ==
    /\ gen = "none"
    /\ heights = <<>>
    /\ stream = <<>>
    /\ template = "none"
    /\ nextTemplate = "none"
    /\ page = 0
    /\ remaining = 0
    /\ placed = <<>>
    /\ chrome = <<>>
    /\ groups = <<>>
    /\ gpc = "idle"
    /\ run = 0
    /\ firstRun = NoRun

NoBox == [padding |-> 0, bar_w |-> 0, avail_width |-> 0, paras |-> <<>>,
          inner_w |-> 0, box_h |-> 0, width |-> 0, height |-> 0]
NoRect == [x |-> 0, y |-> 0, w |-> 0, h |-> 0]

CalloutIdle ==
    /\ cls = "none"
    /\ text_paragraphs = <<>>
    /\ avail_width = 0
    /\ self = NoBox
    /\ wrapLog = <<>>
    /\ painted = NoRect
    /\ drawn = <<>>
    /\ y = 0
    /\ di = 0
    /\ cpc = "idle"

NoLink == [placed |-> FALSE, href |-> <<>>]

UrlIdle ==
    /\ TOOL_URL = <<>>
    /\ tool_callout_texts = <<>>
    /\ links = [A |-> NoLink, C |-> NoLink]
    /\ upc = "idle"

\* no diagram is built
NoDiagram == [width |-> 0, height |-> 0]
NoDrawing == [width |-> 0, shapes |-> <<>>]
DiagIdle ==
    /\ dcls = "none"
    /\ dself = NoDiagram
    /\ shapes = <<>>
    /\ earlier = NoDrawing
    /\ dpc = "idle"

\* no build runs beside the one modelled
ConcIdle ==
    /\ disk = <<>>
    /\ builds = <<>>

\* no frame is made
NoFrame == [x |-> 0, width |-> 0, leftPadding |-> 0, rightPadding |-> 0]
NoOrigin == [x |-> 0, avail |-> 0]
FrameIdle ==
    /\ prog = "none"
    /\ frame = NoFrame
    /\ origin = NoOrigin

Init ==
    MergeInit /\ GenIdle /\ CalloutIdle /\ UrlIdle /\ DiagIdle /\ ConcIdle
    /\ FrameIdle

Next ==
    \/ Configure
    \/ OpenReader
    \/ RenderCallouts
    \/ AssembleStep
    \/ OpenOutput
    \/ WriteOutput

Spec == Init /\ [][Next]_vars

(***************************************************************************)
(* The generators.  A story is the flowable stream build() hands to the    *)
(* layout engine.  A run of consecutive ordinary flowables (paragraphs,    *)
(* spacers, tables) between two markers is represented by one or two       *)
(* flowables; every marker (NextPageTemplate, PageBreak, KeepTogether) of  *)
(* the modelled part keeps its place.  Heights are what the wrap primitive *)
(* returns: any value in 1..MaxH.                                          *)
(***************************************************************************)
Generators == {"phantom", "full", "proof"}

F(id) == [t |-> "flow", id |-> id, items |-> <<>>]
PageBreak == [t |-> "break", id |-> "PageBreak", items |-> <<>>]
NextPageTemplate(name) == [t |-> "switch", id |-> name, items |-> <<>>]
KeepTogether(fl) == [t |-> "keep", id |-> "KeepTogether", items |-> fl]

\* the page is one unit taller than the content frame (the margins)
PageH == FrameH + 1

\* ---- generate_phantom_engaged.py ----
refs_block == <<F("refs_heading"), F("refs_list")>>

\* story with the references appended one by one instead of kept together
story_RefsNotKept ==
    <<F("cover_spacer"), PageBreak, F("exec_summary"), F("body")>>
    \o refs_block
    \o <<F("about_author")>>

\* story with the body appended a second time
story_BodyTwice ==
    <<F("cover_spacer"), PageBreak, F("exec_summary"), F("body"), F("body")>>
    \o <<KeepTogether(refs_block)>>
    \o <<F("about_author")>>

\* build(), lines 373-876
story ==
    <<F("cover_spacer"), PageBreak, F("exec_summary"), F("body")>>
    \o <<KeepTogether(refs_block)>>
    \o <<F("about_author")>>

\* final_story without the template switch
final_story_NoSwitch == story

\* build(), lines 894-896
final_story ==
    <<story[1]>> \o <<NextPageTemplate("Content")>> \o Tail(story)

\* ---- generate_whitepaper_full.py ----
exec_group == <<F("exec_heading"), F("exec_intro")>>
sec3_group == <<F("sec3_heading"), F("sec3_diagram"), F("sec3_text")>>
principle_group == <<F("principle_heading"), F("principle_text")>>

\* full_story with the principle appended flowable by flowable
full_story_PrinciplesNotKept ==
    <<NextPageTemplate("Content"), PageBreak, KeepTogether(exec_group),
      F("exec_body"), KeepTogether(sec3_group), PageBreak, F("sec4_intro")>>
    \o principle_group

\* full_story without the page break that opens section 4
full_story_NoSectionBreak ==
    <<NextPageTemplate("Content"), PageBreak, KeepTogether(exec_group),
      F("exec_body"), KeepTogether(sec3_group), F("sec4_intro"),
      KeepTogether(principle_group)>>

\* full_story without the page break that ends the cover page
full_story_NoCoverBreak ==
    <<NextPageTemplate("Content"), KeepTogether(exec_group),
      F("exec_body"), KeepTogether(sec3_group), PageBreak, F("sec4_intro"),
      KeepTogether(principle_group)>>

\* build(), lines 343-624
full_story ==
    <<NextPageTemplate("Content"), PageBreak, KeepTogether(exec_group),
      F("exec_body"), KeepTogether(sec3_group), PageBreak, F("sec4_intro"),
      KeepTogether(principle_group)>>

\* ---- generate_whitepaper_proof.py ----
\* build_proof(), lines 184-245
proof_story ==
    <<NextPageTemplate("Content"), PageBreak, F("proof_heading"),
      F("proof_body"), F("proof_callout")>>

Story(g) ==
    IF g = "phantom" THEN final_story
    ELSE IF g = "full" THEN full_story
    ELSE proof_story

\* the groups each build() wraps in KeepTogether
KeepGroups(g) ==
    IF g = "phantom" THEN {refs_block}
    ELSE IF g = "full" THEN {exec_group, sec3_group, principle_group}
    ELSE {}

\* addPageTemplates: the first template of the list is the one the engine
\* starts with
PageTemplates(g) == <<"Cover", "Content">>

\* FrameHeight with a content frame too short for a tall flowable
FrameHeight_Short(tpl) == IF tpl = "Cover" THEN PageH ELSE 1

\* the frame of each page template
FrameHeight(tpl) == IF tpl = "Cover" THEN PageH ELSE FrameH

NoNumber == -1

\* OnPage with the page count kept in a module global across builds
OnPage_GlobalCounter(g, tpl, pg) ==
    IF tpl = "Cover" THEN NoNumber
    ELSE (IF g = "phantom" THEN pg - 1 ELSE pg) + firstRun.pages

\* the chrome routines: the page number each displays for doc.page = pg
OnPage(g, tpl, pg) ==
    IF tpl = "Cover" THEN NoNumber
    ELSE IF g = "phantom" THEN pg - 1
    ELSE pg

IdsOf(s) ==
    UNION { IF s[k].t = "keep"
            THEN {s[k].items[j].id : j \in DOMAIN s[k].items}
            ELSE IF s[k].t = "flow" THEN {s[k].id} ELSE {} : k \in DOMAIN s }

RECURSIVE TotalHeight(_, _)
TotalHeight(fl, hs) ==
    IF fl = <<>> THEN 0 ELSE hs[fl[1].id] + TotalHeight(Tail(fl), hs)

GenInit ==
    /\ gen \in Generators
    /\ \E hv \in [IdsOf(Story(gen)) \ {"cover_spacer"} -> 1..MaxH] :
          heights = [id \in IdsOf(Story(gen)) |->
                        IF id = "cover_spacer" THEN PageH ELSE hv[id]]
    /\ stream = Story(gen)
    /\ template = PageTemplates(gen)[1]
    /\ nextTemplate = "none"
    /\ page = 0
    /\ remaining = 0
    /\ placed = <<>>
    /\ chrome = <<>>
    /\ groups = <<>>
    /\ gpc = "pageBegin"
    /\ run = 1
    /\ firstRun = NoRun

\* the template of the page after the current one
UpcomingTemplate == IF nextTemplate # "none" THEN nextTemplate ELSE template

\* a page begins: the counter advances and the template's chrome is drawn
BeginPage ==
    /\ gpc = "pageBegin"
    /\ page' = page + 1
    /\ chrome' = Append(chrome, [template |-> template,
                                 displayed |-> OnPage(gen, template, page + 1)])
    /\ remaining' = FrameHeight(template)
    /\ gpc' = "flow"
    /\ UNCHANGED <<run, firstRun, gen, heights, stream, template, nextTemplate, placed, groups>>
    /\ UNCHANGED notGenVars

\* the switch marker: the template of the pages that follow
HandleSwitch ==
    /\ gpc = "flow"
    /\ stream # <<>>
    /\ Head(stream).t = "switch"
    /\ nextTemplate' = Head(stream).id
    /\ stream' = Tail(stream)
    /\ UNCHANGED <<run, firstRun, gen, heights, template, page, remaining, placed, chrome,
                   groups, gpc>>
    /\ UNCHANGED notGenVars

\* an explicit page break ends the page whatever space remains
HandleBreak ==
    /\ gpc = "flow"
    /\ stream # <<>>
    /\ Head(stream).t = "break"
    /\ template' = UpcomingTemplate
    /\ nextTemplate' = "none"
    /\ stream' = Tail(stream)
    /\ gpc' = "pageBegin"
    /\ UNCHANGED <<run, firstRun, gen, heights, page, remaining, placed, chrome, groups>>
    /\ UNCHANGED notGenVars

\* a flowable that fits is placed below the ones before it
Place ==
    /\ gpc = "flow"
    /\ stream # <<>>
    /\ Head(stream).t = "flow"
    /\ heights[Head(stream).id] <= remaining
    /\ placed' = Append(placed, [id |-> Head(stream).id, page |-> page,
                                 y |-> FrameHeight(template) - remaining])
    /\ remaining' = remaining - heights[Head(stream).id]
    /\ stream' = Tail(stream)
    /\ UNCHANGED <<run, firstRun, gen, heights, template, nextTemplate, page, chrome, groups,
                   gpc>>
    /\ UNCHANGED notGenVars

\* a flowable that does not fit goes to the next page; one that does not
\* fit an empty frame fails the build
Overflow ==
    /\ gpc = "flow"
    /\ stream # <<>>
    /\ Head(stream).t = "flow"
    /\ heights[Head(stream).id] > remaining
    /\ IF remaining = FrameHeight(template)
       THEN /\ gpc' = "failed"
            /\ UNCHANGED <<template, nextTemplate>>
       ELSE /\ gpc' = "pageBegin"
            /\ template' = UpcomingTemplate
            /\ nextTemplate' = "none"
    /\ UNCHANGED <<run, firstRun, gen, heights, stream, page, remaining, placed, chrome,
                   groups>>
    /\ UNCHANGED notGenVars

\* a keep-together group: placed here if it fits in the remaining space,
\* after a page break if it fits a fresh frame, flowable by flowable if not
HandleKeep ==
    /\ gpc = "flow"
    /\ stream # <<>>
    /\ Head(stream).t = "keep"
    /\ LET fl == Head(stream).items
           total == TotalHeight(fl, heights)
       IN  /\ stream' =
                 IF total <= remaining THEN fl \o Tail(stream)
                 ELSE IF total <= FrameHeight(UpcomingTemplate)
                      THEN <<PageBreak>> \o fl \o Tail(stream)
                      ELSE fl \o Tail(stream)
           /\ groups' = Append(groups, [ids |-> {fl[j].id : j \in DOMAIN fl},
                                        total |-> total,
                                        remaining |-> remaining,
                                        page |-> page])
    /\ UNCHANGED <<run, firstRun, gen, heights, template, nextTemplate, page, remaining,
                   placed, chrome, gpc>>
    /\ UNCHANGED notGenVars

\* the stream is exhausted: the last page ends and the document is written
Finish ==
    /\ gpc = "flow"
    /\ stream = <<>>
    /\ gpc' = "done"
    /\ UNCHANGED <<run, firstRun, gen, heights, stream, template, nextTemplate, page,
                   remaining, placed, chrome, groups>>
    /\ UNCHANGED notGenVars

GenNext ==
    \/ BeginPage
    \/ HandleSwitch
    \/ HandleBreak
    \/ Place
    \/ Overflow
    \/ HandleKeep
    \/ Finish

GenSpecInit ==
    GenInit /\ MergeIdle /\ CalloutIdle /\ UrlIdle /\ DiagIdle /\ ConcIdle
    /\ FrameIdle

GenSpec == GenSpecInit /\ [][GenNext]_vars

\* the placed flowables with their sizes
Sized(pl) == [k \in DOMAIN pl |->
                [id |-> pl[k].id, page |-> pl[k].page, y |-> pl[k].y,
                 h |-> heights[pl[k].id]]]

\* the generator is started a second time with the same inputs: the same
\* URL and output path, so the same story and the same wrapped heights
RunAgain ==
    /\ gpc = "done"
    /\ run = 1
    /\ firstRun' = [pages |-> page, placed |-> Sized(placed), chrome |-> chrome]
    /\ run' = 2
    /\ stream' = Story(gen)
    /\ template' = PageTemplates(gen)[1]
    /\ nextTemplate' = "none"
    /\ page' = 0
    /\ remaining' = 0
    /\ placed' = <<>>
    /\ chrome' = <<>>
    /\ groups' = <<>>
    /\ gpc' = "pageBegin"
    /\ UNCHANGED <<gen, heights>>
    /\ UNCHANGED notGenVars

TwiceNext ==
    \/ GenNext
    \/ RunAgain

TwiceSpecInit ==
    GenInit /\ MergeIdle /\ CalloutIdle /\ UrlIdle /\ DiagIdle /\ ConcIdle
    /\ FrameIdle

TwiceSpec == TwiceSpecInit /\ [][TwiceNext]_vars

(***************************************************************************)
(* A callout box as a state machine: __init__, then draw().                *)
(***************************************************************************)
TextWidths == {TextStep * n : n \in 1..MaxTextSteps}
Widths == {WidthStep * n : n \in 1..MaxWidthSteps}
TextLists == UNION {[1..n -> TextWidths] : n \in 1..MaxBlocks}

CalloutInit ==
    /\ cls \in Classes
    /\ text_paragraphs \in TextLists
    /\ avail_width \in Widths
    /\ self = NoBox
    /\ wrapLog = <<>>
    /\ painted = NoRect
    /\ drawn = <<>>
    /\ y = 0
    /\ di = 0
    /\ cpc = "new"

\* __init__
Construct ==
    /\ cpc = "new"
    /\ self' = IF cls = "CalloutBox"
               THEN CalloutBox_init(text_paragraphs, avail_width)
               ELSE ModernCallout_init(text_paragraphs, avail_width)
    /\ wrapLog' = [j \in DOMAIN text_paragraphs |->
                     [para |-> j, width |-> self'.inner_w,
                      ph |-> wrap(self'.paras[j], self'.inner_w),
                      by |-> "__init__"]]
    /\ cpc' = "constructed"
    /\ UNCHANGED <<cls, text_paragraphs, avail_width, painted, drawn, y, di>>
    /\ UNCHANGED notCalloutVars

\* draw(): the background, and the y the first block hangs from
DrawBegin ==
    /\ cpc = "constructed"
    /\ painted' = [x |-> 0, y |-> YBase(cls), w |-> self.avail_width,
                   h |-> self.box_h]
    /\ y' = YBase(cls) + self.box_h - self.padding
    /\ di' = 1
    /\ cpc' = "drawing"
    /\ UNCHANGED <<cls, text_paragraphs, avail_width, self, wrapLog, drawn>>
    /\ UNCHANGED notCalloutVars

\* DrawWrapWidth with the block wrapped at the width of the whole box
DrawWrapWidth_BoxWidth == self.width

\* draw(): the width each block is wrapped at again
DrawWrapWidth == self.inner_w

\* draw(): one turn of the loop over self.paras
DrawPara ==
    /\ cpc = "drawing"
    /\ di <= Len(self.paras)
    /\ LET ph == wrap(self.paras[di], DrawWrapWidth)
       IN  /\ wrapLog' = Append(wrapLog, [para |-> di, width |-> DrawWrapWidth,
                                          ph |-> ph, by |-> "draw"])
           /\ drawn' = Append(drawn, [para |-> di,
                                      x |-> self.bar_w + self.padding,
                                      y |-> y - ph, ph |-> ph])
           /\ y' = y - (ph + Gap(cls))
    /\ di' = di + 1
    /\ UNCHANGED <<cls, text_paragraphs, avail_width, self, painted, cpc>>
    /\ UNCHANGED notCalloutVars

\* draw() returns
DrawEnd ==
    /\ cpc = "drawing"
    /\ di > Len(self.paras)
    /\ cpc' = "drawn"
    /\ UNCHANGED <<cls, text_paragraphs, avail_width, self, wrapLog, painted,
                   drawn, y, di>>
    /\ UNCHANGED notCalloutVars

CalloutNext ==
    \/ Construct
    \/ DrawBegin
    \/ DrawPara
    \/ DrawEnd

CalloutSpecInit ==
    CalloutInit /\ MergeIdle /\ GenIdle /\ UrlIdle /\ DiagIdle /\ ConcIdle
    /\ FrameIdle

CalloutSpec == CalloutSpecInit /\ [][CalloutNext]_vars

(***************************************************************************)
(* The tracking URL (generate_phantom_engaged.py and insert_callouts.py).  *)
(* A URL is a sequence of characters.  build() interpolates it into the    *)
(* markup of two text blocks, between the double quotes of the href        *)
(* attribute of an <a> tag; the Paragraph made from the markup embeds a    *)
(* hyperlink to the value its markup parser reads from that attribute.     *)
(***************************************************************************)
Quote == "\""
UrlChars == {"a", "?", "&", "=", Quote}
Urls == UNION {[1..n -> UrlChars] : n \in 1..MaxUrlLen}

\* the f-string  <a href="{TOOL_URL}" color="...">text</a>
Anchor(url, text) ==
    <<"<a href=", Quote>> \o url \o <<Quote, " color=", ">", text, "</a>">>

\* the markup parser: the value of href runs from the opening quote to the
\* next quote
RECURSIVE UpToQuote(_)
UpToQuote(m) ==
    IF m = <<>> \/ Head(m) = Quote THEN <<>>
    ELSE <<Head(m)>> \o UpToQuote(Tail(m))
HrefOf(markup) == UpToQuote(SubSeq(markup, 3, Len(markup)))

UrlInit ==
    /\ TOOL_URL \in Urls
    /\ tool_callout_texts = <<>>
    /\ links = [A |-> NoLink, C |-> NoLink]
    /\ upc = "start"

\* build(), lines 591-598: the Approach-A callout text
FormatCalloutText ==
    /\ upc = "start"
    /\ tool_callout_texts' = Anchor(TOOL_URL, "free classification tool")
    /\ upc' = "formatted"
    /\ UNCHANGED <<TOOL_URL, links>>
    /\ UNCHANGED notUrlVars

\* build(), line 599: callout() makes a Paragraph of the text
PlaceCallout ==
    /\ upc = "formatted"
    /\ links' = [links EXCEPT !.A = [placed |-> TRUE,
                                     href |-> HrefOf(tool_callout_texts)]]
    /\ upc' = "parsed"
    /\ UNCHANGED <<TOOL_URL, tool_callout_texts>>
    /\ UNCHANGED notUrlVars

\* build(), lines 824-828: the Approach-C paragraph
PlaceParagraph ==
    /\ upc = "parsed"
    /\ links' = [links EXCEPT !.C =
                    [placed |-> TRUE,
                     href |-> HrefOf(Anchor(TOOL_URL, "Access the free tool here."))]]
    /\ upc' = "built"
    /\ UNCHANGED <<TOOL_URL, tool_callout_texts>>
    /\ UNCHANGED notUrlVars

UrlNext ==
    \/ FormatCalloutText
    \/ PlaceCallout
    \/ PlaceParagraph

UrlSpecInit ==
    UrlInit /\ MergeIdle /\ GenIdle /\ CalloutIdle /\ DiagIdle /\ ConcIdle
    /\ FrameIdle

UrlSpec == UrlSpecInit /\ [][UrlNext]_vars

(***************************************************************************)
(* The OverlapDiagram of each generator.  Lengths are whole numbers of     *)
(* 1/Scale of a point, so that W * 0.82, box_w / 2 and box_w * 0.72 are    *)
(* computed exactly.  A shape is [shape, x, y, w, h, text]: for a Rect its *)
(* lower left corner and its size, for a Line its first point and the      *)
(* vector to its second, for a String its anchor point.                    *)
(***************************************************************************)
Scale == 10000
DiagClasses == {"phantom", "full", "proof"}
DiagWidths == {DiagStep * n : n \in 1..MaxDiagSteps}

Rect(x, yy, w, h) ==
    [shape |-> "Rect", x |-> x, y |-> yy, w |-> w, h |-> h, text |-> ""]
Line(x1, y1, x2, y2) ==
    [shape |-> "Line", x |-> x1, y |-> y1, w |-> x2 - x1, h |-> y2 - y1,
     text |-> ""]
String(x, yy, text) ==
    [shape |-> "String", x |-> x, y |-> yy, w |-> 0, h |-> 0, text |-> text]

\* __init__ of the three classes
OverlapDiagram_init(c, avail_w) ==
    [width |-> avail_w * Scale,
     height |-> (CASE c = "phantom" -> 120 [] c = "full" -> 110
                   [] c = "proof" -> 100) * Scale]

\* dash_x with the divider on the right edge of the box
DashX_RightEdge(box_x, box_w) == box_x + box_w

\* generate_phantom_engaged.py, line 196: dash_x
DashX(box_x, box_w) == box_x + (box_w * 72) \div 100

\* generate_phantom_engaged.py, OverlapDiagram.draw
PhantomDiagram(d) ==
    LET W == d.width
        cx == W \div 2
        box_w == (W * 82) \div 100
        box_h == 38 * Scale
        box_x == cx - box_w \div 2
        box_y == 28 * Scale
        r == 4 * Scale
        dash_x == DashX(box_x, box_w)
        lw == (12 * Scale) \div 10
    IN  << Rect(box_x, box_y, box_w, box_h),
           Rect(dash_x, box_y + lw \div 2, (box_x + box_w - r) - dash_x,
                box_h - lw),
           Rect(box_x, box_y, box_w, box_h),
           Line(dash_x, box_y, dash_x, box_y + box_h),
           String(box_x + 20 * Scale, box_y + box_h \div 2 - 3 * Scale,
                  "ENGAGED"),
           String(box_x + box_w - 20 * Scale,
                  box_y + box_h \div 2 - 3 * Scale, "UNENGAGED"),
           String(cx, box_y + box_h + 18 * Scale, "PHANTOM ENGAGED"),
           Line(cx, box_y + box_h + 16 * Scale, cx, box_y + box_h + 2 * Scale),
           String(cx, box_y - 8 * Scale, "Looks engaged in reports,"),
           String(cx, box_y - 18 * Scale, "but attention is uncertain"),
           String(cx, box_y - 32 * Scale, "Privacy protections ...") >>

\* generate_whitepaper_full.py, OverlapDiagram.draw
FullDiagram(d) ==
    LET cx == d.width \div 2
        cy == d.height \div 2 + 10 * Scale
        bar_w == 420 * Scale
        bar_h == 56 * Scale
        x_start == cx - bar_w \div 2
        y_start == cy - bar_h \div 2
        phantom_w == 160 * Scale
        phantom_x == cx - phantom_w \div 2
    IN  << Rect(x_start, y_start, bar_w, bar_h),
           Rect(phantom_x, y_start, phantom_w, bar_h),
           String(x_start + 65 * Scale, y_start + bar_h \div 2 - 4 * Scale,
                  "ENGAGED"),
           String(x_start + bar_w - 65 * Scale,
                  y_start + bar_h \div 2 - 4 * Scale, "UNENGAGED"),
           String(cx, y_start + bar_h \div 2 + 4 * Scale, "PHANTOM ENGAGED"),
           String(cx, y_start + bar_h \div 2 - 10 * Scale, "(Uncertainty)"),
           String(cx, y_start - 20 * Scale, "Privacy protections ...") >>

\* generate_whitepaper_proof.py, OverlapDiagram.draw
ProofDiagram(d) ==
    LET cx == d.width \div 2
        cy == d.height \div 2
        bar_w == 400 * Scale
        bar_h == 50 * Scale
        x_start == cx - bar_w \div 2
        y_start == cy - bar_h \div 2
    IN  << Rect(x_start, y_start, 120 * Scale, bar_h),
           String(x_start + 60 * Scale, y_start + 20 * Scale, "ENGAGED"),
           Rect(x_start + 120 * Scale, y_start, 160 * Scale, bar_h),
           String(x_start + 200 * Scale, y_start + 28 * Scale,
                  "PHANTOM ENGAGED"),
           String(x_start + 200 * Scale, y_start + 15 * Scale,
                  "(Uncertainty)"),
           Rect(x_start + 280 * Scale, y_start, 120 * Scale, bar_h),
           String(x_start + 340 * Scale, y_start + 20 * Scale, "UNENGAGED") >>

OverlapDiagram_draw(c, d) ==
    CASE c = "phantom" -> PhantomDiagram(d)
      [] c = "full" -> FullDiagram(d)
      [] c = "proof" -> ProofDiagram(d)

DiagInit ==
    /\ dcls \in DiagClasses
    /\ dself = NoDiagram
    /\ shapes = <<>>
    /\ earlier = NoDrawing
    /\ dpc = "new"

\* OverlapDiagram(avail_w): the first diagram of a class, or one more for
\* another width once the first is drawn
NewDiagram ==
    /\ \/ dpc = "new"
       \/ dpc = "drawn" /\ earlier = NoDrawing
    /\ \E avail_w \in DiagWidths :
          dself' = OverlapDiagram_init(dcls, avail_w)
    /\ earlier' = IF dpc = "drawn"
                  THEN [width |-> dself.width, shapes |-> shapes]
                  ELSE earlier
    /\ shapes' = <<>>
    /\ dpc' = "constructed"
    /\ UNCHANGED dcls
    /\ UNCHANGED notDiagVars

\* draw()
DrawDiagram ==
    /\ dpc = "constructed"
    /\ shapes' = OverlapDiagram_draw(dcls, dself)
    /\ dpc' = "drawn"
    /\ UNCHANGED <<dcls, dself, earlier>>
    /\ UNCHANGED notDiagVars

DiagNext ==
    \/ NewDiagram
    \/ DrawDiagram

DiagSpecInit ==
    DiagInit /\ MergeIdle /\ GenIdle /\ CalloutIdle /\ UrlIdle /\ ConcIdle
    /\ FrameIdle

DiagSpec == DiagSpecInit /\ [][DiagNext]_vars

(***************************************************************************)
(* Builds run at the same time, each in a process of its own: the          *)
(* generators generate_phantom_engaged.py and generate_whitepaper_full.py  *)
(* and the merge tool insert_callouts.py.  A process has its own module    *)
(* globals, story and document; the processes share the file system.  A    *)
(* file is [dir, name]; a document is identified by the program that made  *)
(* it and the tracking URL it embeds.                                      *)
(***************************************************************************)
Builds == {1, 2}
Kinds == {"phantom", "full", "merge"}
PartnerUrls == {"https://partner-a", "https://partner-b"}

ScriptDir == "<dir>"
LanderDir == "<dir>/mnt/PhantomEngaged_Lander"
ElsewhereDir == "<elsewhere>"
Cwds == {ScriptDir, ElsewhereDir}

\* the second argument of generate_whitepaper_full.py (line 29), and for
\* the merge tool whether line 33 finds the primary source
Args(kind) ==
    CASE kind = "phantom" -> {"none"}
      [] kind = "full" -> {"none", "partner.pdf"}
      [] kind = "merge" -> {"primary", "fallback"}

File(dir, name) == [dir |-> dir, name |-> name]

\* the file a build writes
out_path(b) ==
    CASE b.kind = "phantom" -> File(ScriptDir, "Phantom_Engaged_v5.pdf")
      [] b.kind = "full" ->
            File(b.cwd, IF b.arg = "none"
                        THEN "Phantom_Engaged_Whitepaper_Full.pdf"
                        ELSE b.arg)
      [] b.kind = "merge" ->
            IF b.arg = "primary"
            THEN File(LanderDir, "Phantom_Engaged_v5.pdf")
            ELSE File(b.cwd, "Phantom_Engaged_v5.pdf")

\* what a file holds besides a document: nothing (it does not exist), no
\* bytes, or bytes of two documents
NoFile == [kind |-> "absent", url |-> ""]
EmptyFile == [kind |-> "empty", url |-> ""]
Garbled == [kind |-> "garbled", url |-> ""]
\* no document laid out yet
NoDoc == [kind |-> "none", url |-> ""]

BuildInputs ==
    {[kind |-> k, url |-> u, cwd |-> c, arg |-> a, doc |-> NoDoc,
      pc |-> "start"] : k \in Kinds, u \in PartnerUrls, c \in Cwds,
                        a \in {"none", "partner.pdf", "primary", "fallback"}}

\* the document a build makes: a function of the program and of the URL
Artifact(b) == [kind |-> b.kind, url |-> b.url]

\* the content of a file of the shared file system
Content(f) == IF f \in DOMAIN disk THEN disk[f] ELSE NoFile

ConcInit ==
    /\ builds \in [Builds -> BuildInputs]
    /\ \A b \in Builds : builds[b].arg \in Args(builds[b].kind)
    /\ disk = [f \in {out_path(builds[b]) : b \in Builds} |-> NoFile]

\* the story is laid out (the pages are read and assembled) in memory
Assemble(b) ==
    /\ builds[b].pc = "start"
    /\ builds' = [builds EXCEPT ![b].doc = Artifact(builds[b]),
                                ![b].pc = "assembled"]
    /\ UNCHANGED disk
    /\ UNCHANGED notConcVars

\* the output file is opened for writing: created, or cut to no bytes
OpenOut(b) ==
    /\ builds[b].pc = "assembled"
    /\ disk' = [disk EXCEPT ![out_path(builds[b])] = EmptyFile]
    /\ builds' = [builds EXCEPT ![b].pc = "open"]
    /\ UNCHANGED notConcVars

\* the document is written from the start of the file; bytes another
\* process wrote since this one opened the file stay where this document
\* is the shorter of the two
WriteOut(b) ==
    /\ builds[b].pc = "open"
    /\ LET f == out_path(builds[b])
       IN  \E result \in {builds[b].doc} \cup
                         (IF disk[f] \in {EmptyFile, builds[b].doc}
                          THEN {} ELSE {Garbled}) :
              disk' = [disk EXCEPT ![f] = result]
    /\ builds' = [builds EXCEPT ![b].pc = "done"]
    /\ UNCHANGED notConcVars

ConcNext ==
    \E b \in Builds :
        \/ Assemble(b)
        \/ OpenOut(b)
        \/ WriteOut(b)

ConcSpecInit ==
    ConcInit /\ MergeIdle /\ GenIdle /\ CalloutIdle /\ UrlIdle /\ DiagIdle
    /\ FrameIdle

ConcSpec == ConcSpecInit /\ [][ConcNext]_vars

(***************************************************************************)
(* A callout box in the content frame of the document it is built for:     *)
(* generate_phantom_engaged.py, generate_whitepaper_full.py and            *)
(* insert_callouts.py.  Lengths are in whole points.  The box is the       *)
(* callout box above, built for the avail_w of the program's build().      *)
(***************************************************************************)
Programs == {"phantom", "full", "insert_callouts"}
\* letter: W
PageWidthPts == 612
\* margin = inch * 0.85 (61.2); MARGIN = inch * 1.0
MarginOf(p) == IF p = "full" THEN 72 ELSE 61
\* build(): avail_w.  W - margin * 2 and W - inch * 1.7 are both 489.6
BuildAvailW(p) == IF p = "full" THEN PageWidthPts - 2 * MarginOf(p) ELSE AvailW
\* the width given to the content frame: avail_w in generate_phantom_engaged,
\* W - 2*MARGIN and W - margin*2 in the other two
FrameWidth(p) == IF p = "phantom" THEN BuildAvailW(p)
                 ELSE IF p = "full" THEN PageWidthPts - 2 * MarginOf(p)
                 ELSE AvailW
\* the content frame: no padding is given, so the frame keeps its default
ContentFrame(p) ==
    [x |-> MarginOf(p), width |-> FrameWidth(p), leftPadding |-> FramePad,
     rightPadding |-> FramePad]
ClassOf(p) == IF p = "full" THEN "ModernCallout" ELSE "CalloutBox"

FrameInit ==
    /\ prog \in Programs
    /\ frame = NoFrame
    /\ origin = NoOrigin
    /\ cls = ClassOf(prog)
    /\ text_paragraphs \in TextLists
    /\ avail_width = BuildAvailW(prog)
    /\ self = NoBox
    /\ wrapLog = <<>>
    /\ painted = NoRect
    /\ drawn = <<>>
    /\ y = 0
    /\ di = 0
    /\ cpc = "new"

\* the document template makes its content frame
MakeFrame ==
    /\ frame = NoFrame
    /\ frame' = ContentFrame(prog)
    /\ UNCHANGED <<prog, origin>>
    /\ UNCHANGED notFrameVars

\* doc.build: the frame takes the box at its left inner edge; it checks the
\* height of a flowable against the space left, not its width
AddToFrame ==
    /\ cpc = "constructed"
    /\ frame # NoFrame
    /\ origin = NoOrigin
    /\ origin' = [x |-> frame.x + frame.leftPadding,
                  avail |-> frame.width - frame.leftPadding
                            - frame.rightPadding]
    /\ UNCHANGED <<prog, frame>>
    /\ UNCHANGED notFrameVars

\* the box added to the frame is drawn there
DrawInFrame ==
    /\ origin # NoOrigin
    /\ \/ DrawBegin
       \/ DrawPara
       \/ DrawEnd

FrameNext ==
    \/ MakeFrame
    \/ Construct
    \/ AddToFrame
    \/ DrawInFrame

FrameSpecInit ==
    FrameInit /\ MergeIdle /\ GenIdle /\ UrlIdle /\ DiagIdle /\ ConcIdle

FrameSpec == FrameSpecInit /\ [][FrameNext]_vars

(***************************************************************************)
(* Claims about the merge tool, checked under Spec.                        *)
(***************************************************************************)
\* the source document the tool was configured to read, as it was at the start
SourcePages == fs0[Resolve(ORIG_PDF)].pages
SourceExists == mpc # "config" /\ fs0[Resolve(ORIG_PDF)].exists
\* the output document as it is on disk
OutputPages == fs[Resolve(OUTPUT)].pages
IsNotCallout(pg) == pg.kind # "callout"
\* the anchor the source's comments give each callout page (lines 208-209)
StatedAnchor(nm) == IF nm = "A" THEN 3 ELSE 7
\* every callout page of ps directly follows the original page of its anchor
AfterItsAnchor(ps) ==
    \A p \in 1..Len(ps) :
        ps[p].kind = "callout" =>
            /\ p > 1
            /\ ps[p - 1] = OrigPage(StatedAnchor(ps[p].name))

\* C1: whenever the source has N >= 8 pages (anchors 3 and 7), the output
\* written by build() has exactly N + 2 pages.
C1_PageCountLaw ==
    (mpc = "done" /\ Len(SourcePages) >= 8) =>
        Len(OutputPages) = Len(SourcePages) + 2

C1_Witness ==
    /\ mpc = "done"
    /\ Len(SourcePages) = 9
    /\ Len(OutputPages) = 11

\* C2: for every source page count, deleting the inserted pages from the
\* output yields exactly the source page sequence: every original page is
\* there once, unchanged, in its original order.
C2_OriginalsPreserved ==
    /\ mpc \in {"assemble", "writing", "done"} =>
           SelectSeq(writer, IsNotCallout) = SubSeq(SourcePages, 1, i)
    /\ mpc = "done" => SelectSeq(OutputPages, IsNotCallout) = SourcePages

C2_Witness ==
    /\ mpc = "done"
    /\ Len(SourcePages) = 9
    /\ Len(OutputPages) > Len(SourcePages)
    /\ SelectSeq(OutputPages, IsNotCallout) = SourcePages

\* C3: each inserted page sits immediately after the original page whose
\* original 0-based index is its anchor: the page anchored at 3 is at output
\* index 4 and, the output having grown by one, the page anchored at 7 is at
\* output index 9.
C3_AnchorPlacement ==
    /\ AfterItsAnchor(writer)
    /\ mpc = "done" =>
          /\ AfterItsAnchor(OutputPages)
          /\ Len(SourcePages) >= 4 => OutputPages[4 + 1] = CalloutPage("A", 3)
          /\ Len(SourcePages) >= 8 => OutputPages[9 + 1] = CalloutPage("C", 8)

C3_Witness ==
    /\ mpc = "done"
    /\ Len(SourcePages) = 9
    /\ OutputPages[5].name = "A"
    /\ OutputPages[4] = OrigPage(3)
    /\ OutputPages[10].name = "C"
    /\ OutputPages[9] = OrigPage(7)

\* C4: if the source document has fewer than 8 pages (anchors 3 and 7), the
\* merge ends in a fatal input error before any output write: the output
\* file is never opened for writing and stays as it was.
C4_AnchorPrecondition ==
    (SourceExists /\ Len(SourcePages) < 8) =>
        /\ mpc \notin {"writing", "done"}
        /\ fs[Resolve(OUTPUT)] = fs0[Resolve(OUTPUT)]

\* C6: if the source document is absent at its configured location, after
\* the fallback to the working-directory path, the tool fails at its first
\* step and no output file is created or written.
C6_MissingSourceFailsFast ==
    (mpc # "config" /\ ~fs0[Resolve(ORIG_PDF)].exists) =>
        /\ mpc \in {"start", "failed"}
        /\ fs = fs0
        /\ writer = <<>>

C6_Witness ==
    /\ mpc = "failed"
    /\ ORIG_PDF = CwdOrig
    /\ ~fs0[Resolve(ORIG_PDF)].exists
    /\ fs[Resolve(OUTPUT)] = fs0[Resolve(OUTPUT)]

\* C7: in either configuration branch the output path names another file
\* than the source path, and every file but the output, the source among
\* them, stays as it was: the only file the merge writes is the output.
C7_InputNeverModified ==
    /\ mpc # "config" => Resolve(OUTPUT) # Resolve(ORIG_PDF)
    /\ \A f \in Files : f # Resolve(OUTPUT) => fs[f] = fs0[f]
    /\ mpc # "config" => fs[Resolve(ORIG_PDF)] = fs0[Resolve(ORIG_PDF)]

C7_Witness ==
    /\ mpc = "done"
    /\ ORIG_PDF = CwdOrig
    /\ fs[Resolve(OUTPUT)] # fs0[Resolve(OUTPUT)]
    /\ fs[Resolve(ORIG_PDF)] = fs0[Resolve(ORIG_PDF)]

\* the footer number a page of the merged document displays, original page
\* i taken to display i: the number printed when the page was made
Displayed(pg) == pg.num
\* the pages that carry a footer number: all but the cover
Numbered(ps) == {k \in DOMAIN ps : ~(ps[k].kind = "orig" /\ ps[k].num = 0)}
NonDecreasing(ps) ==
    \A k \in Numbered(ps), l \in Numbered(ps) :
        k < l => Displayed(ps[k]) <= Displayed(ps[l])
Fenced(ps) ==
    \A k \in DOMAIN ps :
        ps[k].kind = "callout" =>
            /\ (k - 1 \in Numbered(ps)) =>
                   Displayed(ps[k - 1]) <= Displayed(ps[k])
            /\ (k + 1 \in DOMAIN ps) =>
                   Displayed(ps[k]) <= Displayed(ps[k + 1])

\* C27: original page i (i >= 1) displaying i, the footer numbers along
\* the merged document never decrease: the number given to each inserted
\* page (3 after original index 3, 8 after original index 7) is at least
\* the number of the page before it and at most that of the page after it.
C27_MonotonePageNumbers ==
    /\ NonDecreasing(writer)
    /\ Fenced(writer)
    /\ mpc = "done" =>
          /\ NonDecreasing(OutputPages)
          /\ Fenced(OutputPages)
          /\ \A k \in DOMAIN OutputPages :
                OutputPages[k].kind = "callout" =>
                    Displayed(OutputPages[k]) =
                        (IF OutputPages[k - 1].num = AnchorA THEN 3 ELSE 8)

\* the nine-page source merged: ... 3, 3, 4 ... 7, 8, 8
C27_Witness ==
    /\ mpc = "done"
    /\ Len(OutputPages) = 11
    /\ Displayed(OutputPages[4]) = 3
    /\ Displayed(OutputPages[5]) = 3
    /\ Displayed(OutputPages[6]) = 4
    /\ Displayed(OutputPages[9]) = 7
    /\ Displayed(OutputPages[10]) = 8
    /\ Displayed(OutputPages[11]) = 8
    /\ OutputPages[5].kind = "callout"
    /\ OutputPages[10].kind = "callout"

\* the anchors that lie inside a document of n pages
AnchorsWithin(n) == {a \in {AnchorA, AnchorC} : a < n}

\* C25: the merge tool opens the output file for writing only after the
\* source has been read, both callout pages have been rendered and every
\* page has been added to the in-memory page sequence; until then, and
\* when one of those steps fails, no file is created or changed.
C25_OutputAfterAssembly ==
    /\ mpc \in {"config", "start", "render", "assemble", "failed"} => fs = fs0
    /\ fs # fs0 => mpc \in {"writing", "done"}
    /\ mpc \in {"writing", "done"} =>
          /\ SourceExists
          /\ reader = SourcePages
          /\ Len(a_reader) >= 1
          /\ Len(c_reader) >= 1
          /\ i = Len(reader)
          /\ SelectSeq(writer, IsNotCallout) = reader
          /\ Len(writer) = Len(reader) + Cardinality(AnchorsWithin(Len(reader)))

\* the output file just opened, empty, with the whole sequence in memory
C25_Witness ==
    /\ mpc = "writing"
    /\ fs[Resolve(OUTPUT)] = Document(<<>>)
    /\ fs0[Resolve(OUTPUT)] = Document(<<StalePage>>)
    /\ Len(reader) = 9
    /\ Len(writer) = 11

(***************************************************************************)
(* Claims about the generators, checked under GenSpec.                     *)
(***************************************************************************)
GroupIds(fl) == {fl[j].id : j \in DOMAIN fl}
\* the pages on which flowables of the set ids have been placed
PagesOf(ids) == {placed[k].page : k \in {n \in DOMAIN placed : placed[n].id \in ids}}
AllPlaced(ids) == \A id \in ids : \E k \in DOMAIN placed : placed[k].id = id
SwitchCount(s) == Cardinality({k \in DOMAIN s : s[k].t = "switch"})

\* C8: in every generator, on every content page the Content chrome
\* routine displays the internal page counter minus one: the first content
\* page (counter 2) shows 1, a content page with counter n shows n - 1.
C8_DisplayedOffset ==
    \A p \in DOMAIN chrome :
        chrome[p].template = "Content" => chrome[p].displayed = p - 1

\* C9: the router starts in Cover, the stream holds exactly one switch
\* marker, and once in Content the router never returns to Cover: page 1
\* and only page 1 is drawn with the cover chrome, every page with internal
\* counter >= 2 with the content chrome.
C9_TemplateRouter ==
    /\ (gen \in Generators /\ page = 0) => template = "Cover"
    /\ gen \in Generators => SwitchCount(Story(gen)) = 1
    /\ \A p \in DOMAIN chrome :
          chrome[p].template = (IF p = 1 THEN "Cover" ELSE "Content")
    /\ page >= 2 => (template = "Content" /\ nextTemplate # "Cover")
    /\ (page >= 1 /\ gpc = "pageBegin") => template = "Content"

C9_Witness ==
    /\ gpc = "done"
    /\ gen = "phantom"
    /\ Len(chrome) >= 3
    /\ chrome[1].template = "Cover"
    /\ chrome[2].template = "Content"
    /\ chrome[3].template = "Content"

\* C10: every keep-together group whose total measured height is at most
\* one full frame height has all its flowables on the same page, whatever
\* space remained on the page when the group was reached.
C10_KeepTogether ==
    \A G \in KeepGroups(gen) :
        TotalHeight(G, heights) <= FrameH =>
            /\ Cardinality(PagesOf(GroupIds(G))) <= 1
            /\ gpc = "done" => AllPlaced(GroupIds(G))

\* a group that did not fit in the space left was placed whole on the next page
C10_Witness ==
    /\ gpc = "done"
    /\ \E k \in DOMAIN groups :
          /\ groups[k].total <= FrameH
          /\ groups[k].remaining < groups[k].total
          /\ groups[k].remaining > 0
          /\ AllPlaced(groups[k].ids)
          /\ PagesOf(groups[k].ids) = {groups[k].page + 1}

\* the placed records of the flowables of fl, in the order they were placed
PlacedOf(fl) == SelectSeq(placed, LAMBDA r : r.id \in GroupIds(fl))
\* the flowables of fl placed so far are its first ones, in its order, on
\* pages that never go back
InOrder(fl) ==
    /\ Len(PlacedOf(fl)) <= Len(fl)
    /\ \A j \in DOMAIN PlacedOf(fl) : PlacedOf(fl)[j].id = fl[j].id
    /\ \A j \in DOMAIN PlacedOf(fl) :
          j > 1 => PlacedOf(fl)[j - 1].page <= PlacedOf(fl)[j].page
Oversized(fl) == TotalHeight(fl, heights) > FrameH

\* a variant of the assembler: what is left of the stream, weighted, plus
\* the rank of the assembler's position
Weight(e) ==
    IF e.t = "flow" THEN 3
    ELSE IF e.t = "break" THEN 2
    ELSE IF e.t = "switch" THEN 1
    ELSE 3 * Len(e.items) + 3
RECURSIVE StreamWeight(_)
StreamWeight(s) == IF s = <<>> THEN 0 ELSE Weight(Head(s)) + StreamWeight(Tail(s))
Rank ==
    IF gpc = "pageBegin" THEN 2
    ELSE IF gpc = "flow"
         THEN (IF remaining = FrameHeight(template) THEN 1 ELSE 3)
         ELSE 0
Measure == StreamWeight(stream) + Rank

\* C11: a keep-together group taller than the frame does not fail the build
\* and does not make the assembler loop: every step of the assembler
\* lowers a non-negative measure, the assembler is never stuck before the
\* end, and at the end every flowable of the group is placed, in the
\* group's order, over more than one page.
C11_OversizedGroupFallback ==
    /\ [](\A G \in KeepGroups(gen) :
            Oversized(G) =>
                /\ gpc # "failed"
                /\ InOrder(G)
                /\ gpc # "done" => ENABLED GenNext
                /\ gpc = "done" =>
                      /\ AllPlaced(GroupIds(G))
                      /\ Cardinality(PagesOf(GroupIds(G))) >= 2)
    /\ [][Measure >= 0 /\ Measure' < Measure]_vars

C11_Witness ==
    /\ gpc = "done"
    /\ gen = "full"
    /\ Oversized(sec3_group)
    /\ AllPlaced(GroupIds(sec3_group))
    /\ Cardinality(PagesOf(GroupIds(sec3_group))) >= 2
    /\ \E k \in DOMAIN groups :
          /\ groups[k].ids = GroupIds(sec3_group)
          /\ groups[k].remaining < FrameH

\* the record the assembler made of group fl when it reached it
Reached(fl) == {k \in DOMAIN groups : groups[k].ids = GroupIds(fl)}

\* C12: a keep-together group that fits in the space left on the current
\* page is placed there, with no page break; one that does not, but fits a
\* fresh frame, is placed after exactly one page break, at the top of the
\* next page; only a group taller than a frame is spread over pages.
C12_PlacementAlgorithm ==
    \A G \in KeepGroups(gen) :
        PlacedOf(G) # <<>> =>
            /\ Reached(G) # {}
            /\ \A k \in Reached(G) :
                  /\ groups[k].total <= groups[k].remaining =>
                        /\ PagesOf(GroupIds(G)) = {groups[k].page}
                        /\ PlacedOf(G)[1].y = FrameH - groups[k].remaining
                  /\ (groups[k].total > groups[k].remaining
                        /\ groups[k].total <= FrameH) =>
                        /\ PagesOf(GroupIds(G)) = {groups[k].page + 1}
                        /\ PlacedOf(G)[1].y = 0
                  /\ Cardinality(PagesOf(GroupIds(G))) > 1 =>
                        groups[k].total > FrameH

\* one group placed where it was reached, another moved whole to the next page
C12_Witness ==
    /\ gpc = "done"
    /\ \E k1, k2 \in DOMAIN groups :
          /\ groups[k1].total <= groups[k1].remaining
          /\ PagesOf(groups[k1].ids) = {groups[k1].page}
          /\ groups[k2].total > groups[k2].remaining
          /\ groups[k2].remaining > 0
          /\ groups[k2].total <= FrameH
          /\ PagesOf(groups[k2].ids) = {groups[k2].page + 1}

\* the flowables build() appends just before and just after a PageBreak()
\* (generate_phantom_engaged.py 376-382, generate_whitepaper_full.py 436-443)
BrokenApart(g) ==
    IF g = "phantom" THEN {<<"cover_spacer", "exec_summary">>}
    ELSE IF g = "full" THEN {<<"sec3_text", "sec4_intro">>}
    ELSE {}
PlacedAt(id) == {k \in DOMAIN placed : placed[k].id = id}
BreaksOf(s) == {b \in DOMAIN s : s[b].t = "break"}

\* C13: the flowable that follows an explicit page break starts a new page,
\* whatever space was left: no flowable that precedes a page break in the
\* stream is on the page of one that follows it.
C13_ExplicitPageBreak ==
    gen \in Generators =>
        /\ \A pr \in BrokenApart(gen) :
              \A a \in PlacedAt(pr[1]), c \in PlacedAt(pr[2]) :
                  /\ placed[a].page < placed[c].page
                  /\ placed[c].y = 0
        /\ \A b \in BreaksOf(Story(gen)) :
              LET before == IdsOf(SubSeq(Story(gen), 1, b - 1))
                  after == IdsOf(SubSeq(Story(gen), b + 1, Len(Story(gen))))
              IN  \A a \in DOMAIN placed :
                      placed[a].id \in before =>
                          \A c \in DOMAIN placed :
                              placed[c].id \in after =>
                                  placed[a].page < placed[c].page

\* the break before section 4 was taken with room left for the next flowable
C13_Witness ==
    /\ gpc = "done"
    /\ gen = "full"
    /\ \E a \in PlacedAt("sec3_text"), c \in PlacedAt("sec4_intro") :
          /\ placed[a].y + heights["sec3_text"] + heights["sec4_intro"] <= FrameH
          /\ placed[c].page = placed[a].page + 1
          /\ placed[c].y = 0

\* the content flowables of a stream, in its order
RECURSIVE FlatIds(_)
FlatIds(s) ==
    IF s = <<>> THEN <<>>
    ELSE (IF Head(s).t = "flow" THEN <<Head(s).id>>
          ELSE IF Head(s).t = "keep"
               THEN [j \in DOMAIN Head(s).items |-> Head(s).items[j].id]
               ELSE <<>>)
         \o FlatIds(Tail(s))
PlacedIds == [k \in DOMAIN placed |-> placed[k].id]
\* placed[k] lies before placed[k + 1], page by page and top to bottom
ReadsBefore(a, b) ==
    \/ a.page < b.page
    \/ a.page = b.page /\ a.y + heights[a.id] <= b.y

\* C24: for every stream handed to the assembler, each content flowable is
\* placed on exactly one page exactly once, and the placed flowables, read
\* page by page and top to bottom, are in the order of the stream: at
\* every step what is placed followed by what is left is the stream.
C24_NoLossNoDuplication ==
    gen \in Generators =>
        LET flat == FlatIds(Story(gen))
        IN  /\ PlacedIds \o FlatIds(stream) = flat
            /\ \A k \in DOMAIN placed :
                  /\ k > 1 => ReadsBefore(placed[k - 1], placed[k])
                  /\ \A l \in DOMAIN placed :
                        l < k => placed[l].id # placed[k].id
            /\ gpc = "done" =>
                  /\ PlacedIds = flat
                  /\ \A id \in IdsOf(Story(gen)) :
                        Cardinality(PlacedAt(id)) = 1

\* generate_whitepaper_full's stream laid out to its end over several pages
C24_Witness ==
    /\ gpc = "done"
    /\ gen = "full"
    /\ Len(placed) = 9
    /\ page >= 4
    /\ \E k \in DOMAIN placed :
          k > 1 /\ placed[k].page = placed[k - 1].page /\ placed[k].y > 0

\* the cover placeholder (generate_phantom_engaged.py only) and the first
\* content flowable of each stream, the Executive Summary heading
CoverPlaceholder == "cover_spacer"
FirstContent(g) ==
    IF g = "phantom" THEN "exec_summary"
    ELSE IF g = "full" THEN "exec_heading"
    ELSE "proof_heading"

\* C26: in every generator physical page 1, the cover page, holds no
\* content flowable other than the cover placeholder, and the first
\* content flowable, the Executive Summary heading, is placed on physical
\* page 2, inside the Content frame.
C26_OnlyCoverOnPageOne ==
    gen \in Generators =>
        /\ \A k \in DOMAIN placed :
              placed[k].page = 1 => placed[k].id = CoverPlaceholder
        /\ \A k \in PlacedAt(FirstContent(gen)) :
              /\ placed[k].page = 2
              /\ Len(chrome) >= 2
              /\ chrome[2].template = "Content"
              /\ 0 <= placed[k].y
              /\ placed[k].y + heights[placed[k].id] <= FrameHeight("Content")
        /\ gpc = "done" => PlacedAt(FirstContent(gen)) # {}

\* the phantom generator's cover page holding its placeholder, the heading
\* on page 2
C26_Witness ==
    /\ gpc = "done"
    /\ gen = "phantom"
    /\ \E k \in DOMAIN placed :
          placed[k].page = 1 /\ placed[k].id = CoverPlaceholder
    /\ \E k \in PlacedAt("exec_summary") :
          placed[k].page = 2 /\ chrome[2].template = "Content"

(***************************************************************************)
(* Claims about the callout boxes, checked under CalloutSpec.              *)
(***************************************************************************)
RECURSIVE SumWrapped(_, _)
SumWrapped(paras, w) ==
    IF paras = <<>> THEN 0 ELSE wrap(Head(paras), w) + SumWrapped(Tail(paras), w)
\* the height the formula of the callout boxes gives: the wrapped heights
\* at the inner width, one gap between consecutive blocks, the padding twice
FormulaHeight ==
    SumWrapped(self.paras, avail_width - BarW(cls) - 2 * Padding(cls))
    + Gap(cls) * (Len(self.paras) - 1)
    + 2 * Padding(cls)

\* C14, as stated: for both classes the height the box reports at
\* construction is the formula's height.
C14_ReportedHeightIsFormula ==
    cpc \in {"constructed", "drawing", "drawn"} => self.height = FormulaHeight

\* C14, amended: at construction the inner width is the available width
\* less the border bar and the padding twice; ModernCallout reports the
\* formula's height; CalloutBox gives the formula's height to its box
\* (box_h) and reports that height plus 8, the 4-point margins under and
\* over the box.
C14_CalloutHeightFormula ==
    cpc \in {"constructed", "drawing", "drawn"} =>
        /\ self.inner_w = avail_width - BarW(cls) - 2 * Padding(cls)
        /\ Len(self.paras) = Len(text_paragraphs)
        /\ cls = "ModernCallout" => self.height = FormulaHeight
        /\ cls = "CalloutBox" =>
              /\ self.box_h = FormulaHeight
              /\ self.height = FormulaHeight + 8

\* a box of two blocks, one of them wrapped over several lines
C14_Witness ==
    /\ cpc = "constructed"
    /\ cls = "CalloutBox"
    /\ Len(self.paras) = 2
    /\ \E j \in DOMAIN self.paras : wrap(self.paras[j], self.inner_w) > Leading(cls)
    /\ self.box_h = FormulaHeight
    /\ self.height = self.box_h + 8

WrapsOf(j) == {n \in DOMAIN wrapLog : wrapLog[n].para = j}

\* C15: each block is wrapped exactly once, by the constructor; draw
\* positions the blocks without calling the wrap primitive.
C15_WrapOnceAtConstruction ==
    /\ \A n \in DOMAIN wrapLog : wrapLog[n].by = "__init__"
    /\ cpc \in {"constructed", "drawing", "drawn"} =>
          \A j \in DOMAIN self.paras : Cardinality(WrapsOf(j)) = 1

RECURSIVE SumOf(_)
SumOf(q) == IF q = <<>> THEN 0 ELSE Head(q) + SumOf(Tail(q))

\* C16: nothing is drawn before the constructor has measured every block;
\* every later measurement of a block is at the same inner width and gives
\* the same height as the first, so the heights draw uses are the heights
\* summed into the reported height.
C16_MeasureBeforeDraw ==
    /\ cpc = "new" => (wrapLog = <<>> /\ drawn = <<>> /\ painted = NoRect)
    /\ (painted # NoRect \/ drawn # <<>>) =>
          \A j \in DOMAIN self.paras :
              /\ j \in DOMAIN wrapLog
              /\ wrapLog[j].para = j
              /\ wrapLog[j].by = "__init__"
              /\ wrapLog[j].width = avail_width - BarW(cls) - 2 * Padding(cls)
    /\ \A a, b \in DOMAIN wrapLog :
          wrapLog[a].para = wrapLog[b].para =>
              /\ wrapLog[a].width = wrapLog[b].width
              /\ wrapLog[a].ph = wrapLog[b].ph
    /\ \A d \in DOMAIN drawn :
          \A n \in WrapsOf(drawn[d].para) : drawn[d].ph = wrapLog[n].ph
    /\ cpc = "drawn" =>
          /\ Len(drawn) = Len(self.paras)
          /\ SumOf([d \in DOMAIN drawn |-> drawn[d].ph])
                + Gap(cls) * (Len(drawn) - 1) + 2 * self.padding = self.box_h

\* a block that the box width would have wrapped in fewer lines, drawn
C16_Witness ==
    /\ cpc = "drawn"
    /\ \E d \in DOMAIN drawn :
          /\ wrap(self.paras[drawn[d].para], self.width) < drawn[d].ph
          /\ Cardinality(WrapsOf(drawn[d].para)) = 2

\* the edges of the painted background and of a drawn block
PaintedTop == painted.y + painted.h
PaintedBottom == painted.y
TopEdge(d) == d.y + d.ph
BottomEdge(d) == d.y

\* C23: when a callout box with at least one text block is drawn, the top
\* edge of the first block is exactly padding below the top of the painted
\* background, each further block hangs the inter-block gap under the one
\* before it, and the bottom edge of the last block is exactly padding
\* above the bottom of the painted background; in CalloutBox the painted
\* background [4, 4 + box_h] lies inside the reported height box_h + 8.
C23_TextInsideBox ==
    (cpc = "drawn" /\ Len(self.paras) >= 1) =>
        /\ Len(drawn) = Len(self.paras)
        /\ TopEdge(drawn[1]) = PaintedTop - self.padding
        /\ \A k \in 2..Len(drawn) :
              TopEdge(drawn[k]) = BottomEdge(drawn[k - 1]) - Gap(cls)
        /\ BottomEdge(drawn[Len(drawn)]) = PaintedBottom + self.padding
        /\ \A k \in DOMAIN drawn :
              /\ drawn[k].ph > 0
              /\ PaintedBottom < BottomEdge(drawn[k])
              /\ TopEdge(drawn[k]) < PaintedTop
        /\ cls = "CalloutBox" =>
              /\ PaintedBottom = 4
              /\ PaintedTop = 4 + self.box_h
              /\ 0 <= PaintedBottom
              /\ PaintedTop <= self.height
              /\ self.height = self.box_h + 8

\* a box drawn with the most blocks, one of them of several lines
C23_Witness ==
    /\ cpc = "drawn"
    /\ Len(drawn) = MaxBlocks
    /\ \E k \in DOMAIN drawn : drawn[k].ph > Leading(cls)
    /\ BottomEdge(drawn[Len(drawn)]) = PaintedBottom + Padding(cls)
    /\ painted.h > 2 * Padding(cls) + Leading(cls) * MaxBlocks

(***************************************************************************)
(* Claims about the inserted pages of the merge tool, checked under Spec.  *)
(***************************************************************************)
\* the page number build() passes to make_callout_page for each payload
\* (lines 216 and 220)
GivenPageNum(nm) == IF nm = "A" THEN 3 ELSE 8
CalloutsOf(ps) == {p \in DOMAIN ps : ps[p].kind = "callout"}

\* C17: the footer of every inserted page displays the page_num given to
\* make_callout_page, 3 for Approach A and 8 for Approach C, whatever the
\* sub-document's own page counter and wherever the page is in the output.
C17_ExternalPageNumber ==
    /\ \A k \in DOMAIN a_reader : a_reader[k].num = GivenPageNum("A")
    /\ \A k \in DOMAIN c_reader : c_reader[k].num = GivenPageNum("C")
    /\ \A p \in CalloutsOf(writer) : writer[p].num = GivenPageNum(writer[p].name)
    /\ mpc = "done" =>
          \A p \in CalloutsOf(OutputPages) :
              OutputPages[p].num = GivenPageNum(OutputPages[p].name)

\* both pages in the output: the footers show 3 and 8 on a first
\* sub-document page, at 0-based output positions 4 and 9
C17_Witness ==
    /\ mpc = "done"
    /\ CalloutsOf(OutputPages) = {5, 10}
    /\ OutputPages[5].num = 3
    /\ OutputPages[10].num = 8
    /\ Len(layout.A) = 1
    /\ Len(layout.C) = 1

StoryIds(st) == [j \in DOMAIN st |-> st[j].id]
\* the flowables of each payload story (lines 161-198)
PayloadIds(nm) ==
    IF nm = "A" THEN StoryIds(create_approach_a(AvailW, AvailW))
    ELSE StoryIds(create_approach_c(AvailW, [j \in 1..3 |-> AvailW]))

\* C18: each sub-document make_callout_page builds has exactly one page,
\* that page holds every flowable of the payload story, and it is the page
\* spliced into the output.
C18_SinglePageSubDocument ==
    mpc \in {"assemble", "writing", "done"} =>
        /\ Len(a_reader) = 1
        /\ Len(c_reader) = 1
        /\ Len(layout.A) = 1
        /\ Len(layout.C) = 1
        /\ layout.A[1].items = PayloadIds("A")
        /\ layout.C[1].items = PayloadIds("C")
        /\ layout.A[1].used <= CalloutFrameH
        /\ layout.C[1].used <= CalloutFrameH
        /\ \A p \in CalloutsOf(writer) :
              writer[p] = (IF writer[p].name = "A" THEN a_reader[1] ELSE c_reader[1])

\* the longest payload: every text block of Approach C over MaxLines lines
C18_Witness ==
    /\ mpc = "done"
    /\ Len(layout.C) = 1
    /\ Len(layout.C[1].items) = 8
    /\ layout.C[1].used >= 68 + (18 + 15 + 15) * MaxLines
    /\ \E p \in CalloutsOf(OutputPages) : OutputPages[p] = c_reader[1]

(***************************************************************************)
(* Claims about the tracking URL, checked under UrlSpec.                   *)
(***************************************************************************)
\* C19: for every supplied URL, with reserved characters or not, each
\* hyperlink placement of a build embeds exactly that string: the two
\* placements carry the same target, and it is the input.
C19_UrlRoundTrip ==
    /\ \A pl \in {"A", "C"} : links[pl].placed => links[pl].href = TOOL_URL
    /\ (links.A.placed /\ links.C.placed) => links.A.href = links.C.href

(***************************************************************************)
(* Claims about two runs of a generator, checked under TwiceSpec.          *)
(***************************************************************************)
IsPrefix(a, b) == Len(a) <= Len(b) /\ \A k \in DOMAIN a : a[k] = b[k]

MainBox == shapes[1]

\* the diagram drawn now is the earlier one scaled horizontally by the ratio
\* of the two widths
ScaledFromEarlier ==
    /\ Len(shapes) = Len(earlier.shapes)
    /\ \A k \in DOMAIN shapes :
          /\ shapes[k].x * earlier.width = earlier.shapes[k].x * dself.width
          /\ shapes[k].w * earlier.width = earlier.shapes[k].w * dself.width

\* C21: in every generator's OverlapDiagram, for every available width w
\* the main box is 0.82 w wide and horizontally centred in w, and every
\* horizontal offset is a fixed fraction of w: the diagram for another
\* width is the same diagram scaled horizontally by the ratio of the widths.
C21_DiagramProportional ==
    dpc = "drawn" =>
        /\ MainBox.w * 100 = 82 * dself.width
        /\ 2 * MainBox.x + MainBox.w = dself.width
        /\ earlier # NoDrawing => ScaledFromEarlier

\* the dashed divider of generate_phantom_engaged's diagram: its fourth shape
Divider == shapes[4]

\* C29: in generate_phantom_engaged's OverlapDiagram, for every available
\* width w > 0 the main box spans from 0.09 w to 0.91 w, inside [0, w], and
\* the dashed divider lies strictly between the box's left and right edges.
C29_DiagramInsideWidth ==
    (dpc = "drawn" /\ dcls = "phantom") =>
        /\ dself.width > 0
        /\ MainBox.shape = "Rect"
        /\ MainBox.x * 100 = 9 * dself.width
        /\ (MainBox.x + MainBox.w) * 100 = 91 * dself.width
        /\ 0 <= MainBox.x
        /\ MainBox.x + MainBox.w <= dself.width
        /\ Divider.shape = "Line"
        /\ Divider.w = 0
        /\ MainBox.x < Divider.x
        /\ Divider.x < MainBox.x + MainBox.w

\* the diagram drawn for the smallest and then for the largest width
C29_Witness ==
    /\ dpc = "drawn"
    /\ dcls = "phantom"
    /\ earlier.width = DiagStep * Scale
    /\ dself.width = DiagStep * MaxDiagSteps * Scale
    /\ Len(shapes) = 11
    /\ Divider.x = MainBox.x + (MainBox.w * 72) \div 100

(***************************************************************************)
(* Claims about builds run at the same time, checked under ConcSpec.       *)
(***************************************************************************)
\* C22: two builds in separate processes, interleaved in any way, are
\* independent: a build that has opened its output finds in it only what
\* it wrote itself, and the file of a finished build holds the document
\* that build would have produced alone.
C22_ConcurrentBuildsIndependent ==
    \A b \in Builds :
        /\ builds[b].pc = "open" =>
              Content(out_path(builds[b])) = EmptyFile
        /\ builds[b].pc = "done" =>
              Content(out_path(builds[b])) = Artifact(builds[b])

(***************************************************************************)
(* Claims about a callout box in its frame, checked under FrameSpec.       *)
(***************************************************************************)
\* the right edge of the frame's content region and of the painted
\* background, on the page
RegionRight == frame.x + frame.width - frame.rightPadding
PaintedRight == origin.x + painted.x + painted.w

\* C28: every callout box placed in the content frame is no wider than the
\* frame's usable width, the frame width less its left and right padding,
\* so its painted background does not extend past the content region.
C28_CalloutFitsFrame ==
    origin # NoOrigin =>
        /\ self.width <= frame.width - frame.leftPadding - frame.rightPadding
        /\ self.width <= origin.avail
        /\ painted # NoRect => PaintedRight <= RegionRight

====
